---- MODULE Spec2Model ----
(***************************************************************************)
(* A model of flashinfer/jit/__init__.py: module initialisation (workspace *)
(* directory, logger), check_cuda_arch, clear_cache_dir,                   *)
(* remove_unwanted_pytorch_nvcc_flags and load_cuda_ops.                   *)
(***************************************************************************)
EXTENDS Integers, Sequences, FiniteSets, TLC

VARIABLES
    \* check_cuda_arch
    archGens,       \* the hardware generations the toolchain reports
    archFlags,      \* the flag strings _get_cuda_arch_flags() returns for them
    archResult,     \* "pending", "accepted", "RuntimeError", "AttributeError"
    \* remove_unwanted_pytorch_nvcc_flags
    nvccFlags,      \* torch_cpp_ext.COMMON_NVCC_FLAGS
    nvccFlags0,     \* its content before the first sanitization
    nvccAfterFirst, \* its content after the first sanitization
    sanRuns,        \* completed runs of the sanitization
    sanRaised,      \* exception that escaped a sanitization run, "none" if none
    \* module initialisation
    wsExists,       \* FLASHINFER_WORKSPACE_DIR exists
    wsFiles,        \* entries of the workspace other than the log file
    logLen,         \* lines in flashinfer_jit.log, -1 when the file is absent
    ws0,            \* the workspace as it was before the import
    initPc,         \* "import", "logger", "ready"
    initErr,        \* exception raised by the import, "none" if none
    \* load_cuda_ops
    pc,             \* per caller: position in load_cuda_ops
    name,           \* per caller: the module name passed
    arch,           \* per caller: the generations its toolchain reports
    outcome,        \* per caller: "none", "module" or the exception raised
    jitExists,      \* FLASHINFER_JIT_DIR exists
    buildDirs,      \* names n with a directory FLASHINFER_JIT_DIR / n
    lockFiles,      \* names n with a file FLASHINFER_JIT_DIR / "n.lock"
    lockHolder,     \* per name: the caller holding the FileLock, 0 if free
    loads,          \* per name: calls of torch_cpp_ext.load started
    returns,        \* per name: calls of torch_cpp_ext.load that have returned
    \* clear_cache_dir
    clearPc,        \* "idle", "removing", "done", "raised"
    listing,        \* what is left of os.listdir(FLASHINFER_JIT_DIR)
    clearErr        \* exception raised by clear_cache_dir, "none" if none

archVars  == <<archGens, archFlags, archResult>>
flagVars  == <<nvccFlags, nvccFlags0, nvccAfterFirst, sanRuns, sanRaised>>
initVars  == <<wsExists, wsFiles, ws0, initPc, initErr>>
loadVars  == <<pc, name, arch, outcome, jitExists, buildDirs, lockFiles,
               lockHolder, loads, returns>>
clearVars == <<clearPc, listing, clearErr>>
vars == <<archVars, flagVars, initVars, logLen, loadVars, clearVars>>

-----------------------------------------------------------------------------
(* Bounds *)

MaxArchFlags == 2
MaxFlagLen == 4
MaxRuns == 2
NumOtherFiles == 3
MaxLog == 3
NumCallers == 2
NumNames == 2

\* Sequences over S of length at most n.
BSeq(S, n) == UNION {[1..k -> S] : k \in 0..n}

Front(s) == SubSeq(s, 1, Len(s) - 1)

-----------------------------------------------------------------------------
(* check_cuda_arch *)

MinArch == 75

DigitTok == <<"0", "1", "2", "3", "4", "5", "6", "7", "8", "9">>

IsDigit(t) == \E d \in 1..10 : DigitTok[d] = t

\* int() of one decimal digit
DigitVal(t) == (CHOOSE d \in 1..10 : DigitTok[d] = t) - 1

\* str(n) for n >= 0, as a sequence of digit characters
RECURSIVE Digits(_)
Digits(n) ==
    IF n < 10 THEN <<DigitTok[n + 1]>>
    ELSE Digits(n \div 10) \o <<DigitTok[(n % 10) + 1]>>

\* The generations the toolchain may report; kind "sm" is a plain binary
\* target, "ptx" a +PTX target, "sm_a" an arch-specific target such as 9.0a.
ArchNums == {70, 72, 74, 75, 80, 100}
ArchKinds == {"sm", "ptx", "sm_a"}
GenSet == [num : ArchNums, kind : ArchKinds]

\* One flag of torch_cpp_ext._get_cuda_arch_flags(), as a sequence of
\* characters in which the literal pieces are kept whole:
\*   -gencode=arch=compute_<N>,code=sm_<N>
ArchFlag(g) ==
    LET suf == IF g.kind = "sm_a" THEN <<"a">> ELSE <<>>
        code == IF g.kind = "ptx" THEN "compute_" ELSE "sm_"
    IN  <<"-gencode=arch=", "compute_">> \o Digits(g.num) \o suf
            \o <<",code=", code>> \o Digits(g.num) \o suf

\* The longest run of digits of s that starts at position i.
RECURSIVE DigitRun(_, _)
DigitRun(s, i) ==
    IF i <= Len(s) /\ IsDigit(s[i]) THEN <<s[i]>> \o DigitRun(s, i + 1)
    ELSE <<>>

\* re.search(r"compute_(\d+)", s).group(1): the digits of the leftmost match,
\* <<>> when nothing matches (re.search returns None).
SearchCompute(s) ==
    LET hits == {i \in 1..(Len(s) - 1) : s[i] = "compute_" /\ IsDigit(s[i + 1])}
    IN  IF hits = {} THEN <<>>
        ELSE DigitRun(s, (CHOOSE i \in hits : \A j \in hits : i <= j) + 1)

\* int() of a sequence of digits
RECURSIVE IntOf(_)
IntOf(ds) ==
    IF ds = <<>> THEN 0 ELSE IntOf(Front(ds)) * 10 + DigitVal(ds[Len(ds)])

\* arch < 75, with the bound taken inclusively
BelowMinInclusive(a) == a <= MinArch
\* arch < 75
BelowMin(a) == a < MinArch

\* The loop of check_cuda_arch from flag i on.
RECURSIVE CheckFrom(_, _)
CheckFrom(flags, i) ==
    IF i > Len(flags) THEN "accepted"
    ELSE LET m == SearchCompute(flags[i])
         IN  IF m = <<>> THEN "AttributeError"
             ELSE IF BelowMin(IntOf(m)) THEN "RuntimeError"
             ELSE CheckFrom(flags, i + 1)

check_cuda_arch(flags) == CheckFrom(flags, 1)

ArchIdle ==
    /\ archGens = <<>>
    /\ archFlags = <<>>
    /\ archResult = "pending"

\* torch_cpp_ext._get_cuda_arch_flags(): one flag per generation.
ArchFlagsOf(gens) == [i \in 1..Len(gens) |-> ArchFlag(gens[i])]

ArchInit ==
    /\ archGens \in BSeq(GenSet, MaxArchFlags)
    /\ archFlags = ArchFlagsOf(archGens)
    /\ archResult = "pending"

CheckArch ==
    /\ archResult = "pending"
    /\ archResult' = check_cuda_arch(archFlags)
    /\ UNCHANGED <<archGens, archFlags>>

-----------------------------------------------------------------------------
(* remove_unwanted_pytorch_nvcc_flags *)

REMOVE_NVCC_FLAGS ==
    << "-D__CUDA_NO_HALF_OPERATORS__",
       "-D__CUDA_NO_HALF_CONVERSIONS__",
       "-D__CUDA_NO_BFLOAT16_CONVERSIONS__",
       "-D__CUDA_NO_HALF2_OPERATORS__" >>

RemoveSet == {REMOVE_NVCC_FLAGS[i] : i \in 1..Len(REMOVE_NVCC_FLAGS)}

\* Flags of the shared list that the sanitization does not name.
OtherFlags == {"--expt-relaxed-constexpr", "-lineinfo"}

\* list.remove(x): the list without the first occurrence of x, or ValueError.
ListRemove(l, x) ==
    LET at == {i \in 1..Len(l) : l[i] = x}
    IN  IF at = {} THEN [found |-> FALSE, list |-> l]
        ELSE LET k == CHOOSE i \in at : \A j \in at : i <= j
             IN  [found |-> TRUE,
                  list |-> SubSeq(l, 1, k - 1) \o SubSeq(l, k + 1, Len(l))]

\* One iteration of the loop with the ValueError escaping the try.
TryRemoveNoCatch(st, flag) ==
    IF st.raised # "none" THEN st
    ELSE LET r == ListRemove(st.list, flag)
         IN  IF r.found THEN [list |-> r.list, raised |-> "none"]
             ELSE [list |-> st.list, raised |-> "ValueError"]

\* One iteration of the loop: try: remove(flag) except ValueError: pass.
\* An exception that escaped an earlier iteration has ended the loop.
TryRemove(st, flag) ==
    IF st.raised # "none" THEN st
    ELSE LET r == ListRemove(st.list, flag)
         IN  IF r.found THEN [list |-> r.list, raised |-> "none"]
             ELSE [list |-> st.list, raised |-> "none"]

RECURSIVE RemoveLoop(_, _)
RemoveLoop(st, i) ==
    IF i > Len(REMOVE_NVCC_FLAGS) THEN st
    ELSE RemoveLoop(TryRemove(st, REMOVE_NVCC_FLAGS[i]), i + 1)

remove_unwanted_pytorch_nvcc_flags(l) ==
    RemoveLoop([list |-> l, raised |-> "none"], 1)

FlagIdle ==
    /\ nvccFlags = <<>>
    /\ nvccFlags0 = <<>>
    /\ nvccAfterFirst = <<>>
    /\ sanRuns = 0
    /\ sanRaised = "none"

FlagInit ==
    /\ nvccFlags \in BSeq(RemoveSet \cup OtherFlags, MaxFlagLen)
    /\ nvccFlags0 = nvccFlags
    /\ nvccAfterFirst = <<>>
    /\ sanRuns = 0
    /\ sanRaised = "none"

Sanitize ==
    /\ sanRuns < MaxRuns
    /\ sanRaised = "none"
    /\ LET st == remove_unwanted_pytorch_nvcc_flags(nvccFlags)
       IN  /\ nvccFlags' = st.list
           /\ sanRaised' = st.raised
           /\ nvccAfterFirst' = IF sanRuns = 0 THEN st.list ELSE nvccAfterFirst
    /\ sanRuns' = sanRuns + 1
    /\ UNCHANGED nvccFlags0

-----------------------------------------------------------------------------
(* Module initialisation: the workspace directory and the logger *)

OtherFiles == 1..NumOtherFiles

\* The module imported, the workspace and an empty log in place.
WsReady ==
    /\ wsExists = TRUE
    /\ wsFiles = {}
    /\ logLen = 0
    /\ ws0 = [exists |-> TRUE, files |-> {}, log |-> 0]
    /\ initPc = "ready"
    /\ initErr = "none"

WsInit ==
    /\ \/ wsExists = FALSE /\ wsFiles = {} /\ logLen = -1
       \/ wsExists = TRUE /\ wsFiles \in SUBSET OtherFiles /\ logLen \in -1..MaxLog
    /\ ws0 = [exists |-> wsExists, files |-> wsFiles, log |-> logLen]
    /\ initPc = "import"
    /\ initErr = "none"

\* os.makedirs(path) without exist_ok: FileExistsError when path is there.
MakedirsResult(present) == IF present THEN "FileExistsError" ELSE "none"

\* if not os.path.exists(FLASHINFER_WORKSPACE_DIR): os.makedirs(...)
ImportWorkspace ==
    /\ initPc = "import"
    /\ IF ~wsExists
         THEN /\ initErr' = MakedirsResult(wsExists)
              /\ wsExists' = TRUE
         ELSE UNCHANGED <<wsExists, initErr>>
    /\ initPc' = IF initErr' = "none" THEN "logger" ELSE "failed"
    /\ UNCHANGED <<wsFiles, logLen, ws0>>

\* FlashInferJITLogger.__init__ with the log file opened for writing always
InitLoggerTruncating ==
    /\ initPc = "logger"
    /\ logLen' = 0
    /\ initPc' = "ready"
    /\ UNCHANGED <<wsExists, wsFiles, ws0, initErr>>

\* FlashInferJITLogger.__init__: an absent log file is created empty, and
\* logging.FileHandler opens the file for appending.
InitLogger ==
    /\ initPc = "logger"
    /\ logLen' = IF logLen = -1 THEN 0 ELSE logLen
    /\ initPc' = "ready"
    /\ UNCHANGED <<wsExists, wsFiles, ws0, initErr>>

\* FlashInferJITLogger.info: one line appended to the log file.
LogInfo ==
    /\ initPc = "ready"
    /\ logLen < MaxLog
    /\ logLen' = logLen + 1
    /\ UNCHANGED <<wsExists, wsFiles, ws0, initPc, initErr>>

-----------------------------------------------------------------------------
(* load_cuda_ops *)

Callers == 1..NumCallers
Names == 1..NumNames

\* The generations a caller's toolchain reports: a machine with one sm_75
\* device, or one with an sm_80 and an sm_70 device.
ArchEnvs ==
    { <<[num |-> 75, kind |-> "sm"]>>,
      <<[num |-> 80, kind |-> "sm"], [num |-> 70, kind |-> "sm"]>> }

\* No call made yet; the cache holds the directories and lock files that
\* earlier completed calls for the names of D have left.
LoadInit ==
    /\ pc = [c \in Callers |-> "idle"]
    /\ name = [c \in Callers |-> 0]
    /\ arch = [c \in Callers |-> <<>>]
    /\ outcome = [c \in Callers |-> "none"]
    /\ \E D \in SUBSET Names :
          /\ buildDirs = D
          /\ lockFiles = D
          /\ jitExists \in (IF D = {} THEN BOOLEAN ELSE {TRUE})
    /\ lockHolder = [n \in Names |-> 0]
    /\ loads = [n \in Names |-> 0]
    /\ returns = [n \in Names |-> 0]

LoadIdle ==
    /\ pc = [c \in Callers |-> "idle"]
    /\ name = [c \in Callers |-> 0]
    /\ arch = [c \in Callers |-> <<>>]
    /\ outcome = [c \in Callers |-> "none"]
    /\ buildDirs = {}
    /\ lockFiles = {}
    /\ jitExists = FALSE
    /\ lockHolder = [n \in Names |-> 0]
    /\ loads = [n \in Names |-> 0]
    /\ returns = [n \in Names |-> 0]

ClearIdle ==
    /\ clearPc = "idle"
    /\ listing = <<>>
    /\ clearErr = "none"

NotLoad == <<archVars, flagVars, initVars, clearVars>>

\* load_cuda_ops entered, with check_cuda_arch() left out
CallUnchecked(c) ==
    /\ initPc = "ready"
    /\ pc[c] = "idle"
    /\ \E n \in Names, a \in ArchEnvs :
          /\ name' = [name EXCEPT ![c] = n]
          /\ arch' = [arch EXCEPT ![c] = a]
          /\ pc' = [pc EXCEPT ![c] = "exists"]
    /\ logLen' = logLen + 1
    /\ UNCHANGED <<outcome, jitExists, buildDirs, lockFiles, lockHolder, loads, returns>>
    /\ UNCHANGED NotLoad

\* load_cuda_ops entered: the flags are assembled, "Loading JIT ops" is
\* logged and check_cuda_arch() runs.
Call(c) ==
    /\ initPc = "ready"
    /\ pc[c] = "idle"
    /\ \E n \in Names, a \in ArchEnvs :
          /\ name' = [name EXCEPT ![c] = n]
          /\ arch' = [arch EXCEPT ![c] = a]
          /\ LET r == check_cuda_arch(ArchFlagsOf(a))
             IN  IF r = "accepted"
                   THEN /\ pc' = [pc EXCEPT ![c] = "exists"]
                        /\ UNCHANGED outcome
                   ELSE /\ pc' = [pc EXCEPT ![c] = "done"]
                        /\ outcome' = [outcome EXCEPT ![c] = r]
    /\ logLen' = logLen + 1
    /\ UNCHANGED <<jitExists, buildDirs, lockFiles, lockHolder, loads, returns>>
    /\ UNCHANGED NotLoad

\* if not os.path.exists(build_directory):
Exists(c) ==
    /\ pc[c] = "exists"
    /\ pc' = [pc EXCEPT ![c] = IF name[c] \in buildDirs THEN "acquire" ELSE "makedirs"]
    /\ UNCHANGED <<name, arch, outcome, jitExists, buildDirs, lockFiles,
                   lockHolder, loads, returns, logLen>>
    /\ UNCHANGED NotLoad

\* os.makedirs(build_directory)
Makedirs(c) ==
    /\ pc[c] = "makedirs"
    /\ LET r == MakedirsResult(name[c] \in buildDirs)
       IN  IF r = "none"
             THEN /\ buildDirs' = buildDirs \cup {name[c]}
                  /\ jitExists' = TRUE
                  /\ pc' = [pc EXCEPT ![c] = "acquire"]
                  /\ UNCHANGED outcome
             ELSE /\ outcome' = [outcome EXCEPT ![c] = r]
                  /\ pc' = [pc EXCEPT ![c] = "done"]
                  /\ UNCHANGED <<buildDirs, jitExists>>
    /\ UNCHANGED <<name, arch, lockFiles, lockHolder, loads, returns, logLen>>
    /\ UNCHANGED NotLoad

\* A lock that never blocks
LockFreeAlways(n) == TRUE

\* Whether the FileLock on "<n>.lock" can be taken by a new caller.
LockFree(n) == lockHolder[n] = 0

\* A single lock shared by all module names
AcquirableGlobal(c) == \A n \in Names : lockHolder[n] = 0

\* The lock a caller waits for is the one of its own module name.
Acquirable(c) == LockFree(name[c])

\* with lock: entered, and torch_cpp_ext.load(...) called.
Acquire(c) ==
    /\ pc[c] = "acquire"
    /\ Acquirable(c)
    /\ lockHolder' = [lockHolder EXCEPT ![name[c]] = c]
    /\ lockFiles' = lockFiles \cup {name[c]}
    /\ loads' = [loads EXCEPT ![name[c]] = @ + 1]
    /\ pc' = [pc EXCEPT ![c] = "load"]
    /\ UNCHANGED <<name, arch, outcome, jitExists, buildDirs, returns, logLen>>
    /\ UNCHANGED NotLoad

\* torch_cpp_ext.load(...) returns the module or raises.
LoaderReturn(c) ==
    /\ pc[c] = "load"
    /\ \E r \in {"module", "LoaderError"} :
          outcome' = [outcome EXCEPT ![c] = r]
    /\ returns' = [returns EXCEPT ![name[c]] = @ + 1]
    /\ pc' = [pc EXCEPT ![c] = "exit"]
    /\ UNCHANGED <<name, arch, jitExists, buildDirs, lockFiles, lockHolder, loads, logLen>>
    /\ UNCHANGED NotLoad

\* The lock after the with block is left, released only when the block
\* returned normally
HolderAfterExitOnSuccess(c) == IF outcome[c] = "module" THEN 0 ELSE c

\* The lock after the with block is left: FileLock.__exit__ releases it,
\* whether the block returned or raised.
HolderAfterExit(c) == 0

\* with lock: left; the result or the exception goes to the caller.
Release(c) ==
    /\ pc[c] = "exit"
    /\ lockHolder' = [lockHolder EXCEPT ![name[c]] = HolderAfterExit(c)]
    /\ pc' = [pc EXCEPT ![c] = "done"]
    /\ UNCHANGED <<name, arch, outcome, jitExists, buildDirs, lockFiles, loads,
                   returns, logLen>>
    /\ UNCHANGED NotLoad

-----------------------------------------------------------------------------
(* clear_cache_dir *)

\* os.listdir(FLASHINFER_JIT_DIR)
Entries == {<<"dir", n>> : n \in buildDirs} \cup {<<"file", n>> : n \in lockFiles}

\* The orders in which os.listdir may return the entries of S.
Orders(S) ==
    {s \in [1..Cardinality(S) -> S] : \A i, j \in 1..Cardinality(S) : i # j => s[i] # s[j]}

\* No call of load_cuda_ops is in progress.
Quiescent == \A c \in Callers : pc[c] \in {"idle", "done"}

NotClear == <<archVars, flagVars, initVars, logLen>>

\* if os.path.exists(FLASHINFER_JIT_DIR): ... os.listdir(FLASHINFER_JIT_DIR)
ClearStart ==
    /\ clearPc = "idle"
    /\ IF jitExists
         THEN /\ \E l \in Orders(Entries) : listing' = l
              /\ clearPc' = "removing"
         ELSE /\ clearPc' = "done"
              /\ UNCHANGED listing
    /\ UNCHANGED <<clearErr, loadVars>>
    /\ UNCHANGED NotClear

\* os.remove(os.path.join(FLASHINFER_JIT_DIR, file)) for the next entry;
\* os.remove raises for a directory.
ClearRemove ==
    /\ clearPc = "removing"
    /\ listing # <<>>
    /\ LET e == Head(listing)
       IN  IF e[1] = "dir"
             THEN /\ clearErr' = "IsADirectoryError"
                  /\ clearPc' = "raised"
                  /\ UNCHANGED <<listing, lockFiles>>
             ELSE /\ lockFiles' = lockFiles \ {e[2]}
                  /\ listing' = Tail(listing)
                  /\ UNCHANGED <<clearErr, clearPc>>
    /\ UNCHANGED <<pc, name, arch, outcome, jitExists, buildDirs, lockHolder, loads, returns>>
    /\ UNCHANGED NotClear

\* The loop of clear_cache_dir has run through the listing.
ClearReturn ==
    /\ clearPc = "removing"
    /\ listing = <<>>
    /\ clearPc' = "done"
    /\ UNCHANGED <<listing, clearErr, loadVars>>
    /\ UNCHANGED NotClear

-----------------------------------------------------------------------------
(* Specifications *)

\* Concurrent callers of load_cuda_ops.
Init == ArchIdle /\ FlagIdle /\ WsReady /\ LoadInit /\ ClearIdle

Next ==
    \E c \in Callers :
        \/ Call(c)
        \/ Exists(c)
        \/ Makedirs(c)
        \/ Acquire(c)
        \/ LoaderReturn(c)
        \/ Release(c)

Spec == Init /\ [][Next]_vars

\* The loader terminates, the with block is left, and a caller that can take
\* the lock again and again does take it.
Fairness ==
    \A c \in Callers :
        /\ WF_vars(LoaderReturn(c))
        /\ WF_vars(Release(c))
        /\ SF_vars(Acquire(c))

FairSpec == Spec /\ Fairness

\* check_cuda_arch on the flags of any toolchain.
InitArch == ArchInit /\ FlagIdle /\ WsReady /\ LoadIdle /\ ClearIdle

NextArch ==
    CheckArch /\ UNCHANGED <<flagVars, initVars, logLen, loadVars, clearVars>>

SpecArch == InitArch /\ [][NextArch]_vars

\* remove_unwanted_pytorch_nvcc_flags on any shared flag list, run at import
\* and again by a later call.
InitFlags == ArchIdle /\ FlagInit /\ WsReady /\ LoadIdle /\ ClearIdle

NextFlags ==
    Sanitize /\ UNCHANGED <<archVars, initVars, logLen, loadVars, clearVars>>

SpecFlags == InitFlags /\ [][NextFlags]_vars

\* The import of the module in one process, on any workspace.
InitImport == ArchIdle /\ FlagIdle /\ WsInit /\ LoadIdle /\ ClearIdle

NextImport ==
    \/ ImportWorkspace /\ UNCHANGED <<archVars, flagVars, loadVars, clearVars>>
    \/ InitLogger /\ UNCHANGED <<archVars, flagVars, loadVars, clearVars>>
    \/ LogInfo /\ UNCHANGED <<archVars, flagVars, loadVars, clearVars>>

SpecImport == InitImport /\ [][NextImport]_vars

\* Calls of load_cuda_ops, and clear_cache_dir called once none is in progress.
NextClear ==
    \/ clearPc = "idle" /\ Next
    \/ Quiescent /\ ClearStart
    \/ ClearRemove
    \/ ClearReturn

SpecClear == Init /\ [][NextClear]_vars

-----------------------------------------------------------------------------
(* Properties *)

\* The caller has called torch_cpp_ext.load.
Entered(c) ==
    \/ pc[c] \in {"load", "exit"}
    \/ pc[c] = "done" /\ outcome[c] \in {"module", "LoaderError"}

C2_OneLoaderPerName ==
    /\ \A n \in Names :
          Cardinality({c \in Callers : name[c] = n /\ pc[c] = "load"}) <= 1
    /\ \A c \in Callers :
          (pc[c] = "acquire" /\ ~ENABLED Acquire(c))
          => \E d \in Callers :
                d # c /\ name[d] = name[c] /\ pc[d] \in {"load", "exit"}

\* C2: callers of two different module names are in the loader together.
C2_Witness ==
    \E c, d \in Callers :
        name[c] # name[d] /\ pc[c] = "load" /\ pc[d] = "load"

\* C3: check_cuda_arch accepts exactly when every reported generation is at
\* least 75, and raises RuntimeError when some reported generation is below.
C3_Threshold ==
    archResult # "pending" =>
        /\ archResult = "accepted"
              <=> \A i \in 1..Len(archGens) : archGens[i].num >= 75
        /\ (\E i \in 1..Len(archGens) : archGens[i].num < 75)
              => archResult = "RuntimeError"

\* C3: generation 75 was let through and generation 74 rejected.
C3_Witness ==
    /\ archResult = "RuntimeError"
    /\ Len(archGens) = 2
    /\ archGens[1].num = 75
    /\ archGens[2].num = 74

\* A generation below 75 is among those the caller's toolchain reports.
BelowCapability(c) == \E i \in 1..Len(arch[c]) : arch[c][i].num < 75

\* C4: a call on hardware below generation 75 ends with the capability error
\* at once: it never gets to the directory, the lock or the loader, and the
\* step that fails leaves the cache directory and the locks as they were.
C4_CheckBeforeCompile ==
    /\ [](\A c \in Callers :
            (pc[c] # "idle" /\ BelowCapability(c))
            => (pc[c] = "done" /\ outcome[c] = "RuntimeError"))
    /\ [][\A c \in Callers :
            (pc[c] = "idle" /\ pc'[c] # "idle" /\ BelowCapability(c)')
            => UNCHANGED <<jitExists, buildDirs, lockFiles, lockHolder, loads>>]_vars

\* C4: a call has failed the capability check, and its module name has
\* neither a build directory nor a lock file.
C4_Witness ==
    \E c \in Callers :
        /\ pc[c] = "done" /\ outcome[c] = "RuntimeError"
        /\ name[c] \notin buildDirs
        /\ name[c] \notin lockFiles

\* C5: clear_cache_dir ends without error and leaves the cache directory,
\* when there is one, empty.
C5_ClearEmptiesCache ==
    clearPc \in {"done", "raised"} =>
        /\ clearPc = "done"
        /\ clearErr = "none"
        /\ Entries = {}

\* C6: a second run of the sanitization leaves the flag list as the first
\* run left it.
C6_Idempotent == sanRuns >= 2 => nvccFlags = nvccAfterFirst

IsOtherFlag(f) == f \notin RemoveSet

Count(l, x) == Cardinality({i \in 1..Len(l) : l[i] = x})

\* C7: the sanitization never raises; a flag of the removal set that is
\* missing does not keep the later ones from being removed (each loses its
\* first occurrence); the other flags stay, in their order.
C7_MissIgnored ==
    sanRuns >= 1 =>
        /\ sanRaised = "none"
        /\ SelectSeq(nvccFlags, IsOtherFlag) = SelectSeq(nvccFlags0, IsOtherFlag)
        /\ \A i \in 1..Len(REMOVE_NVCC_FLAGS) :
              Count(nvccAfterFirst, REMOVE_NVCC_FLAGS[i])
                = IF Count(nvccFlags0, REMOVE_NVCC_FLAGS[i]) = 0 THEN 0
                  ELSE Count(nvccFlags0, REMOVE_NVCC_FLAGS[i]) - 1

\* C7: the first flag of the removal set was missing, the second one was
\* there and is gone, and two other flags are still there.
C7_Witness ==
    /\ sanRuns = 1
    /\ Count(nvccFlags0, REMOVE_NVCC_FLAGS[1]) = 0
    /\ Count(nvccFlags0, REMOVE_NVCC_FLAGS[2]) = 1
    /\ Count(nvccFlags, REMOVE_NVCC_FLAGS[2]) = 0
    /\ Len(SelectSeq(nvccFlags, IsOtherFlag)) = 2

\* C8: the import raises nothing; once past its first step the workspace
\* directory exists; a workspace that was there keeps its entries, and a
\* log file that was there keeps its lines.
C8_WorkspaceKept ==
    /\ initErr = "none"
    /\ initPc # "import" => wsExists
    /\ ws0.exists =>
          /\ wsExists
          /\ wsFiles = ws0.files
          /\ ws0.log >= 0 => logLen >= ws0.log

\* C8: the import has finished on a workspace that held files and a log
\* with lines in it.
C8_Witness ==
    /\ initPc = "ready"
    /\ ws0.exists
    /\ ws0.files # {}
    /\ ws0.log >= 2

\* C9: the lock is free of a caller that has left load_cuda_ops, however the
\* loader ended; a failure of the loader goes to the caller without another
\* loader call; and a caller waiting for the lock gets into the loader.
C9_LockReleasedAndProgress ==
    /\ [](\A c \in Callers : pc[c] = "done" => \A n \in Names : lockHolder[n] # c)
    /\ [][\A c \in Callers :
            (pc[c] = "exit" /\ pc'[c] # "exit")
            => /\ pc'[c] = "done"
               /\ outcome'[c] = outcome[c]
               /\ loads' = loads
               /\ lockHolder'[name[c]] = 0]_vars
    /\ \A c \in Callers : (pc[c] = "acquire") ~> (pc[c] = "load")

\* C9: a caller is in the loader after the build of another caller of the
\* same module name has failed.
C9_Witness ==
    \E c, d \in Callers :
        /\ c # d /\ name[c] = name[d]
        /\ pc[c] = "done" /\ outcome[c] = "LoaderError"
        /\ pc[d] = "load"

\* C10: no caller fails in os.makedirs, and the build directory exists
\* whenever the loader is called.
C10_NoMakedirsFailure ==
    /\ \A c \in Callers : outcome[c] # "FileExistsError"
    /\ \A c \in Callers : pc[c] = "load" => name[c] \in buildDirs

====
